---- MODULE Spec2Model ----
(***************************************************************************)
(* Model of geoprocessamento/join_csv_to_shp.py: the script that joins the *)
(* consolidated CSV of yearly violence statistics onto the shapefile of    *)
(* the municipalities of Minas Gerais.                                     *)
(*                                                                         *)
(* Text is a sequence of one-character strings.  A cell of a table is a    *)
(* pair <<kind, payload>>: <<"nan", <<>>>> is a missing value, "str" holds *)
(* text, "int" the decimal digits of an integer, "float" the digits of a   *)
(* whole float (printed with a trailing ".0"), "num" a rational <<n, d>>.  *)
(***************************************************************************)
EXTENDS Integers, Sequences, FiniteSets, TLC

VARIABLES
    n_pc,       \* normalizer harness: "in", "once", "twice"
    g_in,       \* raw geometry-side code cell
    t_in,       \* raw tabular-side code cell
    nm_in,      \* raw name cell
    g_key,      \* __shp_code6 of g_in
    t_key,      \* __csv_code6 of t_in
    nm_tok,     \* normalizar_nome(nm_in)
    g_key2,     \* __shp_code6 of the text g_key
    t_key2,     \* __csv_code6 of the text t_key
    nm_tok2,    \* normalizar_nome of the text nm_tok
    pc,         \* position of main()
    gdf,        \* the feature collection read by carregar_shapefile
    df_raw,     \* the CSV as read
    df,         \* the table returned by pivotar_dados_por_ano
    anos_disponiveis,   \* the years returned by pivotar_dados_por_ano
    shp_code_col,       \* detect_code_column(gdf.columns), <<>> for None
    csv_code_col,       \* the CSV's code column, <<>> for None
    joined_by,  \* "none", "code" or "name": the join main() ran
    merged,     \* the joined feature collection
    matches,    \* the match count printed by preparar_codigos for the combined join
    with_data,  \* the count printed by main(), line 255
    ano_idx,    \* position of the per-year loop in anos_disponiveis
    files       \* the files on disk, in the order they were written

nvars == <<n_pc, g_in, t_in, nm_in, g_key, t_key, nm_tok, g_key2, t_key2, nm_tok2>>

pvars == <<pc, gdf, df_raw, df, anos_disponiveis, shp_code_col, csv_code_col,
           joined_by, merged, matches, with_data, ano_idx, files>>

vars == <<nvars, pvars>>

(***************************************************************************)
(* Bounds of the model.                                                    *)
(***************************************************************************)
MaxCodeLen == 7
MaxNameLen == 4
MaxRows == 2
MaxFeatures == 2

(***************************************************************************)
(* Cells and text.                                                         *)
(***************************************************************************)
NaN == <<"nan", <<>>>>
StrCell(s) == <<"str", s>>
IntCell(s) == <<"int", s>>
FloatCell(s) == <<"float", s>>

\* pd.isna / Series.notna on one cell
IsNa(v) == v[1] = "nan"

\* str(valor) / Series.astype(str): a missing value prints as "nan", a whole
\* float with a trailing ".0"
AsStr(v) ==
    CASE v[1] = "nan" -> <<"n", "a", "n">>
      [] v[1] = "float" -> v[2] \o <<".", "0">>
      [] OTHER -> v[2]

Digits == {"0", "1", "2", "3", "4", "5", "6", "7", "8", "9"}

IsDigit(c) == c \in Digits

\* .str.replace(r"\D", "", regex=True)
StripNonDigits(s) == SelectSeq(s, IsDigit)

\* .str.zfill(w): left-pad with "0" up to width w, longer text is kept whole
ZFill(s, w) == IF Len(s) >= w THEN s ELSE [i \in 1..(w - Len(s)) |-> "0"] \o s

\* .str[:n]
Prefix(s, n) == SubSeq(s, 1, IF Len(s) < n THEN Len(s) ELSE n)

\* gdf["__shp_code_digits"], lines 174-180 (fillna("") finds nothing to fill:
\* astype(str) has already turned a missing value into the text "nan")
ShpCodeDigits(v) == ZFill(StripNonDigits(AsStr(v)), 7)

\* gdf["__shp_code6"], line 181
ShpCode6(v) == Prefix(ShpCodeDigits(v), 6)

\* df["__csv_code_digits"], lines 183-189
CsvCodeDigits(v) == ZFill(StripNonDigits(AsStr(v)), 6)

\* variant: the slice [:6] of line 190 left out
CsvCode6_NoSlice(v) == ZFill(StripNonDigits(AsStr(v)), 6)

\* variant: the tabular side padded to the geometry side's width
CsvCode6_Pad7(v) == Prefix(ZFill(StripNonDigits(AsStr(v)), 7), 6)

\* df["__csv_code6"], line 190
CsvCode6(v) == Prefix(CsvCodeDigits(v), 6)

(***************************************************************************)
(* normalizar_nome, lines 36-42.                                           *)
(***************************************************************************)
LettersLower == <<"a", "d", "e", "i", "j", "l", "o", "r", "s">>
LettersUpper == <<"A", "D", "E", "I", "J", "L", "O", "R", "S">>

Range(s) == {s[i] : i \in 1..Len(s)}

IndexOf(c, s) == CHOOSE i \in 1..Len(s) : s[i] = c

IsLower(c) == c \in Range(LettersLower)
IsUpper(c) == c \in Range(LettersUpper)
IsCased(c) == IsLower(c) \/ IsUpper(c)

ToUpper(c) == IF IsLower(c) THEN LettersUpper[IndexOf(c, LettersLower)] ELSE c
ToLower(c) == IF IsUpper(c) THEN LettersLower[IndexOf(c, LettersUpper)] ELSE c

\* Characters outside ASCII are written by code point: U+00E3 is a with tilde,
\* U+00C3 is A with tilde, U+0303 is the combining tilde NFKD splits off them.
ATilde == "U+00E3"
CapATilde == "U+00C3"
CombiningTilde == "U+0303"

Ascii == Range(LettersLower) \cup Range(LettersUpper) \cup Digits
            \cup {" ", "-", ".", "_", "x"}

IsAscii(c) == c \in Ascii

IsSpace(c) == c = " "

\* unicodedata.normalize("NFKD", c) of one character
Decompose(c) ==
    CASE c = ATilde -> <<"a", CombiningTilde>>
      [] c = CapATilde -> <<"A", CombiningTilde>>
      [] OTHER -> <<c>>

RECURSIVE NFKD(_)
NFKD(s) == IF s = <<>> THEN <<>> ELSE Decompose(Head(s)) \o NFKD(Tail(s))

\* .encode("ASCII", "ignore").decode("utf-8")
AsciiIgnore(s) == SelectSeq(s, IsAscii)

\* str.split(): the maximal runs of non-whitespace characters
RECURSIVE SplitFrom(_, _, _)
SplitFrom(s, cur, acc) ==
    IF s = <<>> THEN (IF cur = <<>> THEN acc ELSE Append(acc, cur))
    ELSE IF IsSpace(Head(s))
         THEN SplitFrom(Tail(s), <<>>, IF cur = <<>> THEN acc ELSE Append(acc, cur))
         ELSE SplitFrom(Tail(s), Append(cur, Head(s)), acc)

Split(s) == SplitFrom(s, <<>>, <<>>)

\* str.title(): a cased character is upper-cased when the character before it
\* is not cased, lower-cased otherwise
RECURSIVE TitleFrom(_, _)
TitleFrom(s, prevCased) ==
    IF s = <<>> THEN <<>>
    ELSE <<IF prevCased THEN ToLower(Head(s)) ELSE ToUpper(Head(s))>>
             \o TitleFrom(Tail(s), IsCased(Head(s)))

Title(p) == TitleFrom(p, FALSE)

\* " ".join(words)
RECURSIVE JoinSpace(_)
JoinSpace(ws) ==
    IF ws = <<>> THEN <<>>
    ELSE IF Len(ws) = 1 THEN ws[1]
    ELSE ws[1] \o <<" ">> \o JoinSpace(Tail(ws))

TitleWords(ws) == [i \in 1..Len(ws) |-> Title(ws[i])]

\* variant: the words left in the case they came in
normalizar_nome_NoTitle(valor) ==
    IF IsNa(valor) THEN <<>>
    ELSE JoinSpace(Split(AsciiIgnore(NFKD(AsStr(valor)))))

normalizar_nome(valor) ==
    IF IsNa(valor) THEN <<>>
    ELSE JoinSpace(TitleWords(Split(AsciiIgnore(NFKD(AsStr(valor))))))

(***************************************************************************)
(* Static configuration, lines 29-32.                                      *)
(***************************************************************************)
YEAR_COLUMN == <<"ano">>
METRIC_COLUMNS == <<"total_violencia_domestica", "feminicidios", "taxa_feminicidio">>
METRIC_MEAN == {"taxa_feminicidio"}
EXPORT_BY_YEAR == TRUE

(***************************************************************************)
(* Tables.  A column name is a tuple: <<"ano">> for a column read from a   *)
(* file, <<metric, year>> for the column f"{metric}_{int(year)}" made by   *)
(* the pivot.  A table is a sequence of column names and a sequence of     *)
(* rows, each row a function from the column names to cells.               *)
(***************************************************************************)
Col(name) == <<name>>
None == <<>>
COD == Col("municipio_cod")
NOME == Col("municipio_nome")

Table(cols, rows) == [cols |-> cols, rows |-> rows]
EmptyTable == Table(<<>>, <<>>)
HasCol(t, c) == c \in Range(t.cols)

MetricCol(m) == Col(m)

\* rationals <<n, d>>, d > 0, in lowest terms
RECURSIVE GCD(_, _)
GCD(a, b) == IF b = 0 THEN a ELSE GCD(b, a % b)
Rat(n, d) == IF n = 0 THEN <<0, 1>> ELSE <<n \div GCD(n, d), d \div GCD(n, d)>>
RatAdd(p, q) == Rat(p[1] * q[2] + q[1] * p[2], p[2] * q[2])
RatDivInt(p, k) == Rat(p[1], p[2] * k)
RatLess(p, q) == p[1] * q[2] < q[1] * p[2]
NumCell(n) == <<"num", <<n, 1>>>>

\* int(year)
IntOf(v) == v[2][1] \div v[2][2]

\* the characters in code-point order
CharOrder ==
    <<" ", "-", ".", "0", "1", "2", "3", "4", "5", "6", "7", "8", "9",
      "A", "D", "E", "I", "J", "L", "O", "R", "S", "_",
      "a", "d", "e", "i", "j", "l", "o", "r", "s", "x", CapATilde, ATilde>>
Rank(c) == IndexOf(c, CharOrder)

RECURSIVE LexLess(_, _)
LexLess(s, t) ==
    IF t = <<>> THEN FALSE
    ELSE IF s = <<>> THEN TRUE
    ELSE IF Rank(Head(s)) < Rank(Head(t)) THEN TRUE
    ELSE IF Rank(Head(s)) > Rank(Head(t)) THEN FALSE
    ELSE LexLess(Tail(s), Tail(t))

\* the order pandas sorts the values of one column by: numbers by value,
\* text by code point
CellLess(a, b) ==
    CASE a[1] = "num" -> RatLess(a[2], b[2])
      [] a[1] \in {"int", "float"} ->
            Len(a[2]) < Len(b[2]) \/ (Len(a[2]) = Len(b[2]) /\ LexLess(a[2], b[2]))
      [] OTHER -> LexLess(a[2], b[2])

RECURSIVE KeyLess(_, _)
KeyLess(k1, k2) ==
    IF k1 = <<>> THEN FALSE
    ELSE IF CellLess(Head(k1), Head(k2)) THEN TRUE
    ELSE IF CellLess(Head(k2), Head(k1)) THEN FALSE
    ELSE KeyLess(Tail(k1), Tail(k2))

\* the cells of S in ascending order
SortCells(S) ==
    [i \in 1..Cardinality(S) |->
        CHOOSE x \in S : Cardinality({y \in S : CellLess(y, x)}) = i - 1]

\* the group keys of S in ascending order (groupby sorts its keys)
SortKeys(S) ==
    [i \in 1..Cardinality(S) |->
        CHOOSE x \in S : Cardinality({y \in S : KeyLess(y, x)}) = i - 1]

\* Series.notna on a sequence of cells
NotNa(cells) == SelectSeq(cells, LAMBDA v : ~IsNa(v))

RECURSIVE SumRat(_)
SumRat(cells) == IF cells = <<>> THEN <<0, 1>> ELSE RatAdd(Head(cells)[2], SumRat(Tail(cells)))

\* GroupBy.sum (missing values skipped, 0 when nothing is left), GroupBy.mean
\* and GroupBy.first (missing values skipped, missing when nothing is left)
Agg(how, cells) ==
    CASE how = "sum" -> <<"num", SumRat(NotNa(cells))>>
      [] how = "mean" ->
            IF NotNa(cells) = <<>> THEN NaN
            ELSE <<"num", RatDivInt(SumRat(NotNa(cells)), Len(NotNa(cells)))>>
      [] OTHER -> IF NotNa(cells) = <<>> THEN NaN ELSE Head(NotNa(cells))

KeyOf(r, keys) == [i \in 1..Len(keys) |-> r[keys[i]]]
KeyHasNa(r, keys) == \E i \in 1..Len(keys) : IsNa(r[keys[i]])
ColumnOf(rows, c) == [i \in 1..Len(rows) |-> rows[i][c]]

\* df.groupby(keys, as_index=False).agg({c: how[c]}): rows with a missing key
\* are left out, one row per key, the keys in sorted order
GroupByAgg(t, keys, aggcols, how) ==
    LET kept == SelectSeq(t.rows, LAMBDA r : ~KeyHasNa(r, keys))
        ks == SortKeys({KeyOf(kept[i], keys) : i \in 1..Len(kept)})
        group(k) == SelectSeq(kept, LAMBDA r : KeyOf(r, keys) = k)
        row(k) == [c \in Range(keys) \cup Range(aggcols) |->
                     IF c \in Range(keys) THEN k[IndexOf(c, keys)]
                     ELSE Agg(how[c], ColumnOf(group(k), c))]
    IN Table(keys \o aggcols, [i \in 1..Len(ks) |-> row(ks[i])])

\* sorted(df[YEAR_COLUMN].dropna().unique())
SortedYears(t) ==
    SortCells({t.rows[i][YEAR_COLUMN] : i \in 1..Len(t.rows)} \ {NaN})

\* [col for col in METRIC_COLUMNS if col in df.columns]
MetricsIn(t) == SelectSeq(METRIC_COLUMNS, LAMBDA m : HasCol(t, MetricCol(m)))

\* agg_dict of line 126
Reducer(c) == IF c[1] \in METRIC_MEAN THEN "mean" ELSE "sum"

\* the metric names in the order sort_index puts them in
MetricsSorted == <<"feminicidios", "taxa_feminicidio", "total_violencia_domestica">>
MetricLess(m1, m2) == IndexOf(m1, MetricsSorted) < IndexOf(m2, MetricsSorted)

\* variant: the columns ordered by metric, then by year
ByMetricThenYear(p, q) ==
    MetricLess(p[1], q[1]) \/ (p[1] = q[1] /\ CellLess(p[2], q[2]))

\* .sort_index(axis=1, level=1), line 136: by year, then by the remaining
\* level, the metric
ByYearThenMetric(p, q) ==
    CellLess(p[2], q[2]) \/ (p[2] = q[2] /\ MetricLess(p[1], q[1]))

\* the (metric, year) columns in the order sort_index leaves them in
SortColumns(S) ==
    [i \in 1..Cardinality(S) |->
        CHOOSE x \in S : Cardinality({y \in S : ByYearThenMetric(y, x)}) = i - 1]

\* agrupado.pivot_table(index=index_cols, columns=YEAR_COLUMN, values=metrics,
\* aggfunc="first") followed by the renaming and reset_index of lines 139-140
PivotTable(agrupado, index_cols, metrics) ==
    LET mcols == [i \in 1..Len(metrics) |-> MetricCol(metrics[i])]
        \* agged.dropna(how="all"): a row with no metric value at all is dropped
        agged == SelectSeq(agrupado.rows,
                           LAMBDA r : \E i \in 1..Len(mcols) : ~IsNa(r[mcols[i]]))
        ks == SortKeys({KeyOf(agged[i], index_cols) : i \in 1..Len(agged)})
        years == {agged[i][YEAR_COLUMN] : i \in 1..Len(agged)}
        cell(k, m, y) ==
            LET hit == SelectSeq(agged, LAMBDA r : KeyOf(r, index_cols) = k /\ r[YEAR_COLUMN] = y)
            IN IF hit = <<>> THEN NaN ELSE Agg("first", ColumnOf(hit, MetricCol(m)))
        \* table.dropna(how="all", axis=1): a column with no value at all is dropped
        pairs == {p \in Range(metrics) \X years :
                    \E i \in 1..Len(ks) : ~IsNa(cell(ks[i], p[1], p[2]))}
        ordered == SortColumns(pairs)
        names == [i \in 1..Len(ordered) |-> <<ordered[i][1], IntOf(ordered[i][2])>>]
        row(k) == [c \in Range(index_cols) \cup Range(names) |->
                     IF c \in Range(index_cols) THEN k[IndexOf(c, index_cols)]
                     ELSE cell(k, ordered[IndexOf(c, names)][1], ordered[IndexOf(c, names)][2])]
    IN Table(index_cols \o names, [i \in 1..Len(ks) |-> row(ks[i])])

\* the pivot has a group to work on: some record has its keys and a value.
\* (What pandas makes of a pivot with no group left is not modelled; the
\* inputs are drawn among the tables for which this holds.)
LeavesAGroup(t) ==
    (HasCol(t, YEAR_COLUMN) /\ HasCol(t, COD) /\ MetricsIn(t) # <<>>) =>
        \E i \in 1..Len(t.rows) :
            /\ ~IsNa(t.rows[i][COD]) /\ ~IsNa(t.rows[i][YEAR_COLUMN])
            /\ HasCol(t, NOME) => ~IsNa(t.rows[i][NOME])
            /\ \E k \in 1..Len(MetricsIn(t)) :
                  MetricsIn(t)[k] \notin METRIC_MEAN \/ ~IsNa(t.rows[i][MetricCol(MetricsIn(t)[k])])

\* index_cols of lines 122-124
IndexCols(t) == IF HasCol(t, NOME) THEN <<COD, NOME>> ELSE <<COD>>

\* pivotar_dados_por_ano, lines 108-146: the table and the years it returns
\* (None and the empty list of years are both <<>>)
pivotar_dados_por_ano(t) ==
    IF ~HasCol(t, YEAR_COLUMN) \/ ~HasCol(t, COD)
    THEN [df |-> t, anos |-> IF HasCol(t, YEAR_COLUMN) THEN SortedYears(t) ELSE None]
    ELSE IF MetricsIn(t) = <<>>
    THEN [df |-> t, anos |-> SortedYears(t)]
    ELSE LET metrics == MetricsIn(t)
             mcols == [i \in 1..Len(metrics) |-> MetricCol(metrics[i])]
             agrupado == GroupByAgg(t, IndexCols(t) \o <<YEAR_COLUMN>>, mcols,
                                    [c \in Range(mcols) |-> Reducer(c)])
         IN [df |-> PivotTable(agrupado, IndexCols(t), metrics), anos |-> SortedYears(t)]

(***************************************************************************)
(* detect_code_column and detect_name_column, lines 45-82.                 *)
(***************************************************************************)
CodeCandidates ==
    <<<<"m", "u", "n", "i", "c", "i", "p", "i", "o", "_", "c", "o", "d">>,
      <<"c", "o", "d", "i", "g", "o", "_", "i", "b", "g", "e">>,
      <<"c", "o", "d", "_", "i", "b", "g", "e">>,
      <<"c", "o", "d", "_", "m", "u", "n">>,
      <<"c", "d", "_", "m", "u", "n">>,
      <<"c", "d", "_", "m", "u", "n", "i", "c", "i", "p">>,
      <<"c", "d", "_", "i", "b", "g", "e">>,
      <<"c", "o", "d", "i", "g", "o">>,
      <<"i", "b", "g", "e">>,
      <<"c", "o", "d">>>>

NameCandidates ==
    <<<<"m", "u", "n", "i", "c", "i", "p", "i", "o", "_", "n", "o", "m", "e">>,
      <<"n", "o", "m", "e">>,
      <<"m", "u", "n", "i", "c", "i", "p", "i", "o">>,
      <<"n", "m", "_", "m", "u", "n">>,
      <<"n", "m", "_", "m", "u", "n", "i", "c", "i", "p">>,
      <<"n", "a", "m", "e">>>>

\* c.lower() of the column names the model's files carry
LowerName(c) ==
    CASE c = Col("CD_MUN") -> <<"c", "d", "_", "m", "u", "n">>
      [] c = Col("NM_MUN") -> <<"n", "m", "_", "m", "u", "n">>
      [] c = Col("geometry") -> <<"g", "e", "o", "m", "e", "t", "r", "y">>
      [] c = Col("municipio_cod") -> <<"m", "u", "n", "i", "c", "i", "p", "i", "o", "_", "c", "o", "d">>
      [] c = Col("codigo_ibge") -> <<"c", "o", "d", "i", "g", "o", "_", "i", "b", "g", "e">>
      [] c = Col("municipio_nome") -> <<"m", "u", "n", "i", "c", "i", "p", "i", "o", "_", "n", "o", "m", "e">>
      [] c = Col("nome") -> <<"n", "o", "m", "e">>
      [] c = Col("ano") -> <<"a", "n", "o">>
      [] c = Col("total_violencia_domestica") -> <<"t", "o", "t", "a", "l", "_", "v", "i", "o", "l", "e", "n", "c", "i", "a", "_", "d", "o", "m", "e", "s", "t", "i", "c", "a">>
      [] c = Col("feminicidios") -> <<"f", "e", "m", "i", "n", "i", "c", "i", "d", "i", "o", "s">>
      [] c = Col("taxa_feminicidio") -> <<"t", "a", "x", "a", "_", "f", "e", "m", "i", "n", "i", "c", "i", "d", "i", "o">>

\* alvo in nome
Contains(alvo, nome) ==
    \E i \in 1..(Len(nome) - Len(alvo) + 1) : SubSeq(nome, i, i + Len(alvo) - 1) = alvo

SetMin(S) == CHOOSE x \in S : \A y \in S : x <= y

\* the two nested loops of lines 60-64 and 78-82: the candidates in priority
\* order, the columns in their own order, the first hit wins; <<>> is None
DetectColumn(candidatos, colunas) ==
    LET hits(a) == {idx \in 1..Len(colunas) : Contains(candidatos[a], LowerName(colunas[idx]))}
        good == {a \in 1..Len(candidatos) : hits(a) # {}}
    IN IF good = {} THEN None ELSE colunas[SetMin(hits(SetMin(good)))]

\* variant: only the first candidate name is looked for
detect_code_column_FirstCandidate(colunas) == DetectColumn(<<CodeCandidates[1]>>, colunas)

detect_code_column(colunas) == DetectColumn(CodeCandidates, colunas)

detect_name_column(colunas) == DetectColumn(NameCandidates, colunas)

(***************************************************************************)
(* agrupar_por_municipio, lines 149-166.                                   *)
(***************************************************************************)
\* pd.api.types.is_numeric_dtype(df[col]): no cell of the column is text
IsNumericColumn(t, c) ==
    \A i \in 1..Len(t.rows) : t.rows[i][c][1] \in {"num", "int", "float", "nan"}

\* df.drop_duplicates(subset=[col]): the first row of each value is kept
DropDuplicates(t, c) ==
    LET first(i) == \A j \in 1..(i - 1) : t.rows[j][c] # t.rows[i][c]
        keep == SelectSeq([i \in 1..Len(t.rows) |-> i], first)
    IN Table(t.cols, [k \in 1..Len(keep) |-> t.rows[keep[k]]])

agrupar_por_municipio(t, code_col) ==
    IF ~HasCol(t, code_col) THEN t
    ELSE LET aggcols == SelectSeq(t.cols,
                 LAMBDA c : c \notin {code_col, YEAR_COLUMN}
                            /\ (c = NOME \/ IsNumericColumn(t, c)))
             how == [c \in Range(aggcols) |-> IF c = NOME THEN "first" ELSE Reducer(c)]
         IN IF aggcols = <<>> THEN DropDuplicates(t, code_col)
            ELSE GroupByAgg(t, <<code_col>>, aggcols, how)

(***************************************************************************)
(* preparar_codigos and merge_por_nome, lines 169-215.                     *)
(***************************************************************************)
RECURSIVE Flatten(_)
Flatten(ss) == IF ss = <<>> THEN <<>> ELSE Head(ss) \o Flatten(Tail(ss))

NaRow(cols) == [c \in Range(cols) |-> NaN]

\* left.merge(right, how="left") on the key columns lkeys, rkeys: the left rows in
\* their order, each once per partner on the right (in the right's order),
\* and once with missing values when it has no partner.  The column names of
\* the two sides are disjoint in the model, so no _x/_y suffix is needed.
LeftMerge(left, right, lkeys, rkeys) ==
    LET partners(i) == SelectSeq([j \in 1..Len(right.rows) |-> j], LAMBDA j : rkeys[j] = lkeys[i])
        out(i) == IF partners(i) = <<>> THEN <<left.rows[i] @@ NaRow(right.cols)>>
                  ELSE [k \in 1..Len(partners(i)) |-> left.rows[i] @@ right.rows[partners(i)[k]]]
    IN Table(left.cols \o right.cols, Flatten([i \in 1..Len(left.rows) |-> out(i)]))

TOTAL == Col("total_violencia_domestica")

\* merged["total_violencia_domestica"].notna().sum() if the column exists,
\* else 0: lines 197 and 250-254
CountWithData(m) ==
    IF HasCol(m, TOTAL)
    THEN Cardinality({i \in 1..Len(m.rows) : ~IsNa(m.rows[i][TOTAL])})
    ELSE 0

\* the keys of lines 181 and 190
ShpKeys(g, shp_col) == [i \in 1..Len(g.rows) |-> ShpCode6(g.rows[i][shp_col])]
CsvKeys(t, csv_col) == [i \in 1..Len(t.rows) |-> CsvCode6(t.rows[i][csv_col])]

\* preparar_codigos: the merged table (the four key columns dropped again)
preparar_codigos(g, t, shp_col, csv_col) ==
    LeftMerge(g, t, ShpKeys(g, shp_col), CsvKeys(t, csv_col))

merge_por_nome(g, t, shp_name_col) ==
    LeftMerge(g, t, [i \in 1..Len(g.rows) |-> normalizar_nome(g.rows[i][shp_name_col])],
                    [i \in 1..Len(t.rows) |-> normalizar_nome(t.rows[i][NOME])])

(***************************************************************************)
(* The inputs: a shapefile and a CSV, as carregar_shapefile and            *)
(* pd.read_csv return them (lines 223-224).                                *)
(***************************************************************************)
CD_MUN == Col("CD_MUN")
NM_MUN == Col("NM_MUN")
GEOMETRY == Col("geometry")

SaoJoaoDelRei ==
    <<"S", ATilde, "o", " ", "J", "o", ATilde, "o", " ", "d", "e", "l", "-", "R", "e", "i">>
SaoJoaoLower ==
    <<"s", "a", "o", " ", "j", "o", "a", "o", " ", "d", "e", "l", " ", "r", "e", "i">>
SaoJoaoUpper ==
    <<"S", CapATilde, "O", " ", "J", "O", CapATilde, "O", " ", "D", "E", "L", " ", "R", "E", "I">>
Sardoa == <<"S", "a", "r", "d", "o", "a">>
Code3106200 == <<"3", "1", "0", "6", "2", "0", "0">>
Code3170206 == <<"3", "1", "7", "0", "2", "0", "6">>
Code310620 == <<"3", "1", "0", "6", "2", "0">>
Code317020 == <<"3", "1", "7", "0", "2", "0">>

Feature(code, name) == [code |-> code, name |-> name]

FeatureTemplates ==
    <<Feature(StrCell(Code3106200), StrCell(SaoJoaoUpper)),
      Feature(StrCell(Code3170206), StrCell(Sardoa)),
      Feature(NaN, NaN)>>

\* the sequences of at most n elements of S
RECURSIVE SeqsUpTo(_, _)
SeqsUpTo(S, n) ==
    IF n = 0 THEN {<<>>}
    ELSE LET shorter == SeqsUpTo(S, n - 1)
         IN shorter \cup {Append(s, c) : s \in {t \in shorter : Len(t) = n - 1}, c \in S}

\* the layers of at most n features taken from a pool, in the pool's order
LayersUpTo(pool, n) ==
    {SelectSeq(pool, LAMBDA x : x \in S) :
        S \in {T \in SUBSET Range(pool) : Cardinality(T) <= n}}

GdfCols(hasCode, hasName) ==
    (IF hasCode THEN <<CD_MUN>> ELSE <<>>) \o (IF hasName THEN <<NM_MUN>> ELSE <<>>)
        \o <<GEOMETRY>>

GdfOf(hasCode, hasName, feats) ==
    Table(GdfCols(hasCode, hasName),
          [i \in 1..Len(feats) |->
              [c \in Range(GdfCols(hasCode, hasName)) |->
                  CASE c = CD_MUN -> feats[i].code
                    [] c = NM_MUN -> feats[i].name
                    [] OTHER -> <<"geom", <<i>>>>]])

Record(cod, nome, ano, total, fem, taxa) ==
    [cod |-> cod, nome |-> nome, ano |-> ano, total |-> total, fem |-> fem, taxa |-> taxa]

Values1 == [total |-> NumCell(1), fem |-> NumCell(1), taxa |-> NumCell(2)]
Values2 == [total |-> NaN, fem |-> NumCell(2), taxa |-> NaN]
Values3 == [total |-> NumCell(2), fem |-> NumCell(2), taxa |-> NumCell(4)]

WithValues(cod, nome, ano, v) == Record(cod, nome, ano, v.total, v.fem, v.taxa)

RecordTemplates ==
    {WithValues(IntCell(Code310620), StrCell(SaoJoaoLower), NumCell(2022), Values1),
     WithValues(IntCell(Code317020), StrCell(Sardoa), NumCell(2022), Values3),
     WithValues(IntCell(Code310620), StrCell(SaoJoaoDelRei), NumCell(2022), Values1),
     WithValues(IntCell(Code310620), StrCell(SaoJoaoLower), NumCell(2023), Values2),
     WithValues(NaN, NaN, NumCell(2022), Values1),
     WithValues(StrCell(<<"x">>), StrCell(Sardoa), NumCell(2023), Values3)}

PivotRecords ==
    {WithValues(IntCell(Code310620), StrCell(SaoJoaoLower), NumCell(2022), Values1),
     WithValues(IntCell(Code310620), StrCell(SaoJoaoLower), NumCell(2023), Values2),
     WithValues(IntCell(Code310620), StrCell(SaoJoaoLower), NumCell(2022), Values3),
     WithValues(IntCell(Code310620), StrCell(SaoJoaoDelRei), NumCell(2022), Values1),
     WithValues(IntCell(Code317020), StrCell(Sardoa), NumCell(2023), Values1),
     WithValues(IntCell(Code317020), StrCell(Sardoa), NumCell(2022), Values2),
     WithValues(NaN, StrCell(SaoJoaoLower), NumCell(2022), Values1),
     WithValues(IntCell(Code310620), StrCell(SaoJoaoLower), NaN, Values1)}

\* the dtype pd.read_csv gives the code column: text as soon as one cell is
\* text, float as soon as a cell of a numeric column is missing
CodeAsRead(recs, i) ==
    IF recs[i].cod[1] # "int" THEN recs[i].cod
    ELSE IF \E j \in 1..Len(recs) : recs[j].cod[1] = "str" THEN StrCell(recs[i].cod[2])
    ELSE IF \E j \in 1..Len(recs) : recs[j].cod[1] = "nan" THEN FloatCell(recs[i].cod[2])
    ELSE recs[i].cod

CsvCols(codeCol, nameCol, hasYear, metrics) ==
    codeCol \o nameCol \o (IF hasYear THEN <<YEAR_COLUMN>> ELSE <<>>)
        \o [i \in 1..Len(metrics) |-> MetricCol(metrics[i])]

CodeColumnNames == {COD, Col("codigo_ibge")}
NameColumnNames == {NOME, Col("nome")}

CsvOf(codeCol, nameCol, hasYear, metrics, recs) ==
    Table(CsvCols(codeCol, nameCol, hasYear, metrics),
          [i \in 1..Len(recs) |->
              [c \in Range(CsvCols(codeCol, nameCol, hasYear, metrics)) |->
                  CASE c \in CodeColumnNames -> CodeAsRead(recs, i)
                    [] c \in NameColumnNames -> recs[i].nome
                    [] c = YEAR_COLUMN -> recs[i].ano
                    [] c = Col("total_violencia_domestica") -> recs[i].total
                    [] c = Col("feminicidios") -> recs[i].fem
                    [] OTHER -> recs[i].taxa]])

NormIdle ==
    /\ n_pc = "idle"
    /\ g_in = NaN /\ t_in = NaN /\ nm_in = NaN
    /\ g_key = <<>> /\ t_key = <<>> /\ nm_tok = <<>>
    /\ g_key2 = <<>> /\ t_key2 = <<>> /\ nm_tok2 = <<>>

PipelineStart ==
    /\ pc = "start"
    /\ df = EmptyTable
    /\ anos_disponiveis = None
    /\ shp_code_col = None
    /\ csv_code_col = None
    /\ joined_by = "none"
    /\ merged = EmptyTable
    /\ matches = 0
    /\ with_data = 0
    /\ ano_idx = 0
    /\ files = <<>>

PipelineIdle ==
    /\ pc = "idle"
    /\ gdf = EmptyTable /\ df_raw = EmptyTable /\ df = EmptyTable
    /\ anos_disponiveis = None
    /\ shp_code_col = None /\ csv_code_col = None
    /\ joined_by = "none"
    /\ merged = EmptyTable
    /\ matches = 0 /\ with_data = 0 /\ ano_idx = 0
    /\ files = <<>>

\* the end-to-end scenario: features 3106200 and 3170206, rows
\* (310620, 2022, feminicidios=1) and (317020, 2022, feminicidios=2)
ScenarioGdf ==
    GdfOf(TRUE, FALSE, <<Feature(StrCell(Code3106200), NaN), Feature(StrCell(Code3170206), NaN)>>)
ScenarioCsv ==
    CsvOf(<<COD>>, <<>>, TRUE, <<"feminicidios">>,
          <<Record(IntCell(Code310620), NaN, NumCell(2022), NaN, NumCell(1), NaN),
            Record(IntCell(Code317020), NaN, NumCell(2022), NaN, NumCell(2), NaN)>>)

TwoFeatures ==
    <<Feature(StrCell(Code3106200), StrCell(SaoJoaoUpper)),
      Feature(StrCell(Code3170206), StrCell(Sardoa))>>
TwoRecords ==
    <<WithValues(IntCell(Code310620), StrCell(SaoJoaoLower), NumCell(2022), Values1),
      WithValues(IntCell(Code317020), StrCell(Sardoa), NumCell(2023), Values3)>>

\* rich data under the usual schemas
InitData ==
    \E hasCode \in BOOLEAN, hasYear \in BOOLEAN,
       metrics \in {<<"feminicidios">>, <<"total_violencia_domestica">>},
       feats \in LayersUpTo(FeatureTemplates, MaxFeatures),
       recs \in SeqsUpTo(RecordTemplates, MaxRows) :
        /\ gdf = GdfOf(hasCode, TRUE, feats)
        /\ df_raw = CsvOf(<<COD>>, <<NOME>>, hasYear, metrics, recs)

\* every schema under fixed data
InitSchemas ==
    \E hasCode \in BOOLEAN, hasName \in BOOLEAN,
       codeCol \in {<<>>} \cup {<<c>> : c \in CodeColumnNames},
       nameCol \in {<<>>} \cup {<<c>> : c \in NameColumnNames},
       hasYear \in BOOLEAN,
       metrics \in {<<>>, <<"feminicidios">>, <<"total_violencia_domestica">>,
                    <<"total_violencia_domestica", "feminicidios", "taxa_feminicidio">>} :
        /\ gdf = GdfOf(hasCode, hasName, TwoFeatures)
        /\ df_raw = CsvOf(codeCol, nameCol, hasYear, metrics, TwoRecords)

Init ==
    /\ NormIdle
    /\ PipelineStart
    /\ \/ InitData
       \/ InitSchemas
       \/ gdf = ScenarioGdf /\ df_raw = ScenarioCsv
    /\ LeavesAGroup(df_raw)

(***************************************************************************)
(* main(), lines 218-280, one action per step.                             *)
(***************************************************************************)
\* line 227
Pivotar ==
    /\ pc = "start"
    /\ df' = pivotar_dados_por_ano(df_raw).df
    /\ anos_disponiveis' = pivotar_dados_por_ano(df_raw).anos
    /\ pc' = "pivoted"
    /\ UNCHANGED <<gdf, df_raw, shp_code_col, csv_code_col, joined_by, merged,
                   matches, with_data, ano_idx, files>>
    /\ UNCHANGED nvars

\* lines 229-230
DetectarColunas ==
    /\ pc = "pivoted"
    /\ shp_code_col' = detect_code_column(gdf.cols)
    /\ csv_code_col' = IF HasCol(df, COD) THEN COD ELSE detect_code_column(df.cols)
    /\ pc' = "detected"
    /\ UNCHANGED <<gdf, df_raw, df, anos_disponiveis, joined_by, merged,
                   matches, with_data, ano_idx, files>>
    /\ UNCHANGED nvars

\* lines 233-237
MergePorCodigo ==
    /\ pc = "detected"
    /\ shp_code_col # None /\ csv_code_col # None
    /\ merged' = preparar_codigos(gdf, df, shp_code_col, csv_code_col)
    /\ matches' = CountWithData(preparar_codigos(gdf, df, shp_code_col, csv_code_col))
    /\ joined_by' = "code"
    /\ pc' = "joined"
    /\ UNCHANGED <<gdf, df_raw, df, anos_disponiveis, shp_code_col, csv_code_col,
                   with_data, ano_idx, files>>
    /\ UNCHANGED nvars

\* lines 239-247, the join by name
MergePorNome ==
    /\ pc = "detected"
    /\ ~(shp_code_col # None /\ csv_code_col # None)
    /\ detect_name_column(gdf.cols) # None /\ HasCol(df, NOME)
    /\ merged' = merge_por_nome(gdf, df, detect_name_column(gdf.cols))
    /\ joined_by' = "name"
    /\ pc' = "joined"
    /\ UNCHANGED <<gdf, df_raw, df, anos_disponiveis, shp_code_col, csv_code_col,
                   matches, with_data, ano_idx, files>>
    /\ UNCHANGED nvars

\* lines 241-243, sys.exit(1)
Falhar ==
    /\ pc = "detected"
    /\ ~(shp_code_col # None /\ csv_code_col # None)
    /\ detect_name_column(gdf.cols) = None \/ ~HasCol(df, NOME)
    /\ pc' = "failed"
    /\ UNCHANGED <<gdf, df_raw, df, anos_disponiveis, shp_code_col, csv_code_col,
                   joined_by, merged, matches, with_data, ano_idx, files>>
    /\ UNCHANGED nvars

\* lines 249-255
Contar ==
    /\ pc = "joined"
    /\ with_data' = CountWithData(merged)
    /\ pc' = "counted"
    /\ UNCHANGED <<gdf, df_raw, df, anos_disponiveis, shp_code_col, csv_code_col,
                   joined_by, merged, matches, ano_idx, files>>
    /\ UNCHANGED nvars

OUT_STEM == "municipios_MG_data"

File(path, t, complete) == [path |-> path, table |-> t, complete |-> complete]

\* the condition of lines 264-270
ExportaPorAno ==
    /\ EXPORT_BY_YEAR
    /\ anos_disponiveis # <<>>
    /\ shp_code_col # None
    /\ csv_code_col # None
    /\ HasCol(df_raw, YEAR_COLUMN)

\* line 257, the write succeeds
GravarCombinado ==
    /\ pc = "counted"
    /\ files' = Append(files, File(<<OUT_STEM>>, merged, TRUE))
    /\ pc' = IF ExportaPorAno THEN "years" ELSE "done"
    /\ ano_idx' = 1
    /\ UNCHANGED <<gdf, df_raw, df, anos_disponiveis, shp_code_col, csv_code_col,
                   joined_by, merged, matches, with_data>>
    /\ UNCHANGED nvars

\* line 257, to_file raises: the file is absent or left incomplete, main() ends
GravarCombinadoFalha ==
    /\ pc = "counted"
    /\ files' \in {files, Append(files, File(<<OUT_STEM>>, merged, FALSE))}
    /\ pc' = "crashed"
    /\ UNCHANGED <<gdf, df_raw, df, anos_disponiveis, shp_code_col, csv_code_col,
                   joined_by, merged, matches, with_data, ano_idx>>
    /\ UNCHANGED nvars

\* df_raw[df_raw[YEAR_COLUMN] == ano], line 273
RowsOfYear(t, ano) == Table(t.cols, SelectSeq(t.rows, LAMBDA r : r[YEAR_COLUMN] = ano))

\* lines 276-277
MergedYear(ano) ==
    preparar_codigos(gdf, agrupar_por_municipio(RowsOfYear(df_raw, ano), csv_code_col),
                     shp_code_col, csv_code_col)

\* variant: the loop walks the years from the last to the first
YearAt_Descending(i) == anos_disponiveis[Len(anos_disponiveis) + 1 - i]

\* for ano in anos_disponiveis, line 272
YearAt(i) == anos_disponiveis[i]

\* one turn of the loop of lines 272-280, the write succeeds (or the year is
\* skipped, line 275)
GravarAno ==
    /\ pc = "years"
    /\ ano_idx <= Len(anos_disponiveis)
    /\ files' = IF RowsOfYear(df_raw, YearAt(ano_idx)).rows = <<>> THEN files
                ELSE Append(files, File(<<OUT_STEM, IntOf(YearAt(ano_idx))>>,
                                        MergedYear(YearAt(ano_idx)), TRUE))
    /\ ano_idx' = ano_idx + 1
    /\ pc' = IF ano_idx = Len(anos_disponiveis) THEN "done" ELSE "years"
    /\ UNCHANGED <<gdf, df_raw, df, anos_disponiveis, shp_code_col, csv_code_col,
                   joined_by, merged, matches, with_data>>
    /\ UNCHANGED nvars

\* one turn of the loop, to_file raises at line 279
GravarAnoFalha ==
    /\ pc = "years"
    /\ ano_idx <= Len(anos_disponiveis)
    /\ RowsOfYear(df_raw, YearAt(ano_idx)).rows # <<>>
    /\ files' \in {files, Append(files, File(<<OUT_STEM, IntOf(YearAt(ano_idx))>>,
                                             MergedYear(YearAt(ano_idx)), FALSE))}
    /\ pc' = "crashed"
    /\ UNCHANGED <<gdf, df_raw, df, anos_disponiveis, shp_code_col, csv_code_col,
                   joined_by, merged, matches, with_data, ano_idx>>
    /\ UNCHANGED nvars

Next ==
    \/ Pivotar
    \/ DetectarColunas
    \/ MergePorCodigo
    \/ MergePorNome
    \/ Falhar
    \/ Contar
    \/ GravarCombinado
    \/ GravarCombinadoFalha
    \/ GravarAno
    \/ GravarAnoFalha

Spec == Init /\ [][Next]_vars

\* the reshaper alone, on a wider range of tables
InitPivot ==
    /\ NormIdle
    /\ PipelineStart
    /\ gdf = EmptyTable
    /\ \E hasCode \in BOOLEAN, hasName \in BOOLEAN, hasYear \in BOOLEAN,
          metrics \in {<<>>, <<"feminicidios">>, <<"taxa_feminicidio">>,
                       <<"total_violencia_domestica", "taxa_feminicidio">>,
                       <<"total_violencia_domestica", "feminicidios", "taxa_feminicidio">>},
          recs \in SeqsUpTo(PivotRecords, MaxRows) :
            df_raw = CsvOf(IF hasCode THEN <<COD>> ELSE <<>>,
                           IF hasName THEN <<NOME>> ELSE <<>>, hasYear, metrics, recs)
    /\ LeavesAGroup(df_raw)

SpecPivot == InitPivot /\ [][Pivotar]_vars

(***************************************************************************)
(* The normalizers applied to bounded inputs, once and then to their own   *)
(* output.                                                                 *)
(***************************************************************************)
CodeAlphabet == {"0", "3"}
NameAlphabet == {"a", "A", ATilde, "-", " ", "1"}

\* an int prints without leading zeros
IsIntText(s) == Len(s) >= 1 /\ (Len(s) = 1 \/ s[1] # "0")

CodeTexts == SeqsUpTo(CodeAlphabet, MaxCodeLen)

OddCodes ==
    {NaN, StrCell(<<"x">>), StrCell(<<"3", "1", ".", "0", "6", "2", "0">>),
     StrCell(<<"3", "1", "-", "0", "6", "2", "0", "0">>),
     FloatCell(<<"3", "1", "0", "6", "2">>), FloatCell(<<"3", "1", "0", "6", "2", "0">>)}

GeoCodeInputs ==
    {StrCell(s) : s \in {t \in CodeTexts : Len(t) >= 6}} \cup OddCodes

TabCodeInputs ==
    {StrCell(s) : s \in {t \in CodeTexts : Len(t) >= 4}}
        \cup {IntCell(s) : s \in {t \in CodeTexts : Len(t) >= 5 /\ IsIntText(t)}}
        \cup OddCodes

NameInputs ==
    {StrCell(s) : s \in SeqsUpTo(NameAlphabet, MaxNameLen)}
        \cup {NaN, StrCell(SaoJoaoDelRei), StrCell(SaoJoaoLower), StrCell(SaoJoaoUpper)}

InitNorm ==
    /\ n_pc = "in"
    /\ \/ g_in \in GeoCodeInputs /\ t_in \in TabCodeInputs /\ nm_in = NaN
       \/ g_in = NaN /\ t_in = NaN /\ nm_in \in NameInputs
    /\ g_key = <<>> /\ t_key = <<>> /\ nm_tok = <<>>
    /\ g_key2 = <<>> /\ t_key2 = <<>> /\ nm_tok2 = <<>>
    /\ PipelineIdle

NormalizarUmaVez ==
    /\ n_pc = "in"
    /\ n_pc' = "once"
    /\ g_key' = ShpCode6(g_in)
    /\ t_key' = CsvCode6(t_in)
    /\ nm_tok' = normalizar_nome(nm_in)
    /\ UNCHANGED <<g_in, t_in, nm_in, g_key2, t_key2, nm_tok2>>
    /\ UNCHANGED pvars

NormalizarDeNovo ==
    /\ n_pc = "once"
    /\ n_pc' = "twice"
    /\ g_key2' = ShpCode6(StrCell(g_key))
    /\ t_key2' = CsvCode6(StrCell(t_key))
    /\ nm_tok2' = normalizar_nome(StrCell(nm_tok))
    /\ UNCHANGED <<g_in, t_in, nm_in, g_key, t_key, nm_tok>>
    /\ UNCHANGED pvars

NextNorm == NormalizarUmaVez \/ NormalizarDeNovo

SpecNorm == InitNorm /\ [][NextNorm]_vars

(***************************************************************************)
(* Properties of the normalizers (specification SpecNorm).                 *)
(***************************************************************************)
AllDigits(s) == \A i \in 1..Len(s) : s[i] \in Digits

OnlyDigitsOf(s) == SelectSeq(s, LAMBDA c : c \in Digits)

Zeros(n) == [i \in 1..n |-> "0"]

\* the tabular code's digits, zero-padded on the left to width 6, cut to 6
PaddedFirst6(s) ==
    LET d == OnlyDigitsOf(s)
        p == IF Len(d) < 6 THEN Zeros(6 - Len(d)) \o d ELSE d
    IN SubSeq(p, 1, 6)

IsSevenDigitCode(v) == ~IsNa(v) /\ Len(AsStr(v)) = 7 /\ AllDigits(AsStr(v))

\* C3: a 7-digit geometry code and a tabular code whose zero-padded first 6
\* digits equal the geometry code's first 6 digits get the same comparison
\* key, whatever the 7th digit, and both keys are exactly 6 digits long.
C3_TruncationSymmetry ==
    (n_pc # "in" /\ IsSevenDigitCode(g_in) /\ ~IsNa(t_in)
        /\ PaddedFirst6(AsStr(t_in)) = SubSeq(AsStr(g_in), 1, 6))
    => /\ g_key = t_key
       /\ Len(g_key) = 6 /\ Len(t_key) = 6
       /\ AllDigits(g_key) /\ AllDigits(t_key)

C3_Witness ==
    /\ n_pc = "once"
    /\ g_in = StrCell(<<"0", "3", "3", "0", "0", "3", "3">>)
    /\ t_in = IntCell(<<"3", "3", "0", "0", "3">>)
    /\ g_key = <<"0", "3", "3", "0", "0", "3">>
    /\ t_key = g_key

SaoJoaoExamples == {StrCell(SaoJoaoDelRei), StrCell(SaoJoaoLower), StrCell(SaoJoaoUpper)}

TokenDelRei ==
    <<"S", "a", "o", " ", "J", "o", "a", "o", " ", "D", "e", "l", " ", "R", "e", "i">>
TokenDelHyphenRei ==
    <<"S", "a", "o", " ", "J", "o", "a", "o", " ", "D", "e", "l", "-", "R", "e", "i">>

\* C4 as claimed: the three spellings of Sao Joao del-Rei get one and the same
\* token.
C4_Claimed_OneToken ==
    (n_pc # "in" /\ nm_in \in SaoJoaoExamples) => nm_tok = TokenDelRei

\* the name with its diacritics removed and its letters lower-cased
FoldChar(c) == CASE c = ATilde -> "a" [] c = CapATilde -> "a" [] OTHER -> ToLower(c)
Fold(s) == [i \in 1..Len(s) |-> FoldChar(s[i])]

\* C4 as amended: names that differ only in diacritics or letter case get the
\* same token ("sao joao del rei" and "SAO JOAO DEL REI" with tildes both give
\* "Sao Joao Del Rei"); a hyphen is kept, so "Sao Joao del-Rei" with tildes gives
\* "Sao Joao Del-Rei".
C4_CaseAndDiacriticInvariance ==
    (n_pc # "in" /\ ~IsNa(nm_in)) =>
        /\ nm_tok = normalizar_nome(StrCell(Fold(AsStr(nm_in))))
        /\ nm_in \in {StrCell(SaoJoaoLower), StrCell(SaoJoaoUpper)} => nm_tok = TokenDelRei
        /\ nm_in = StrCell(SaoJoaoDelRei) => nm_tok = TokenDelHyphenRei

C4_Witness ==
    n_pc = "once" /\ nm_in = StrCell(SaoJoaoUpper) /\ nm_tok = TokenDelRei

\* C5 as claimed: every normalizer returns an already-canonical value
\* unchanged, the geometry-side code normalization included.
C5_Claimed_Idempotent ==
    n_pc = "twice" => (g_key2 = g_key /\ t_key2 = t_key /\ nm_tok2 = nm_tok)

\* C5 as amended: the tabular-side code normalization and normalizar_nome
\* return a canonical value unchanged; the geometry-side normalization pads a
\* 6-digit key to 7 digits and returns "0" followed by its first 5 digits.
C5_IdempotentExceptGeometry ==
    n_pc = "twice" =>
        /\ t_key2 = t_key
        /\ nm_tok2 = nm_tok
        /\ g_key2 = <<"0">> \o SubSeq(g_key, 1, 5)

C5_Witness ==
    /\ n_pc = "twice"
    /\ t_key = <<"3", "3", "0", "0", "3", "0">> /\ t_key2 = t_key
    /\ g_key = <<"3", "3", "0", "0", "3", "0">> /\ g_key2 = <<"0", "3", "3", "0", "0", "3">>

(***************************************************************************)
(* Properties of the reshaper (specification SpecPivot).                   *)
(***************************************************************************)
\* the table went through the pivot of lines 122-140
WasPivoted ==
    HasCol(df_raw, YEAR_COLUMN) /\ HasCol(df_raw, COD) /\ MetricsIn(df_raw) # <<>>

\* C6: with a year column and a code column in the CSV the table returned by
\* pivotar_dados_por_ano holds no municipality code twice; with either column
\* absent the table is returned unchanged.
C6_Claimed_OneRowPerMunicipality ==
    pc = "pivoted" =>
        IF HasCol(df_raw, YEAR_COLUMN) /\ HasCol(df_raw, COD)
        THEN \A i, j \in 1..Len(df.rows) :
                (i # j /\ ~IsNa(df.rows[i][COD])) => df.rows[i][COD] # df.rows[j][COD]
        ELSE df = df_raw

\* the columns f"{metric}_{year}" of a table, in the table's order
MetricYearCols(t) == SelectSeq(t.cols, LAMBDA c : Len(c) = 2)

PresentMetrics == {m \in Range(METRIC_COLUMNS) : HasCol(df_raw, Col(m))}
PresentYears ==
    {IntOf(df_raw.rows[i][YEAR_COLUMN]) :
        i \in {k \in 1..Len(df_raw.rows) : ~IsNa(df_raw.rows[k][YEAR_COLUMN])}}

KeyedRecords ==
    {i \in 1..Len(df_raw.rows) :
        /\ ~IsNa(df_raw.rows[i][COD])
        /\ ~IsNa(df_raw.rows[i][YEAR_COLUMN])
        /\ HasCol(df_raw, NOME) => ~IsNa(df_raw.rows[i][NOME])}

\* a (metric, year) pair with a value: a sum has one in every year with a
\* keyed record, a mean only where a keyed record carries a value
PairsWithValue ==
    {<<p[1], IntOf(df_raw.rows[p[2]][YEAR_COLUMN])>> :
        p \in {q \in PresentMetrics \X KeyedRecords :
                 q[1] \notin METRIC_MEAN \/ ~IsNa(df_raw.rows[q[2]][Col(q[1])])}}

Joined == joined_by # "none"

\* C1: the joined output has exactly as many rows as the feature collection,
\* by code and by name alike.
C1_Claimed_Cardinality ==
    Joined =>
        /\ Len(merged.rows) = Len(gdf.rows)
        /\ \A i \in 1..Len(gdf.rows) : merged.rows[i][GEOMETRY] = gdf.rows[i][GEOMETRY]

NoTabularAttributes(r) == \A c \in Range(df.cols) : IsNa(r[c])

\* C2: a feature whose code has no digit (code join) or whose name is missing
\* or blank (name join) leaves the join with no tabular attributes.
C2_Claimed_NoEmptyKeyMatch ==
    /\ joined_by = "code" =>
          \A i \in 1..Len(merged.rows) :
              OnlyDigitsOf(AsStr(merged.rows[i][shp_code_col])) = <<>>
                  => NoTabularAttributes(merged.rows[i])
    /\ joined_by = "name" =>
          \A i \in 1..Len(merged.rows) :
              (LET v == merged.rows[i][detect_name_column(gdf.cols)]
               IN IsNa(v) \/ \A k \in 1..Len(AsStr(v)) : AsStr(v)[k] = " ")
                  => NoTabularAttributes(merged.rows[i])

\* the features of a joined table that carry a value in a metric column,
\* metric or metric_year
FeaturesWithMetric(m) ==
    {m.rows[i][GEOMETRY] :
        i \in {k \in 1..Len(m.rows) :
                 \E c \in Range(m.cols) :
                     c[1] \in Range(METRIC_COLUMNS) /\ ~IsNa(m.rows[k][c])}}

IsScenario == gdf = ScenarioGdf /\ df_raw = ScenarioCsv

\* C8: after a join by code the reported match count is the number of output
\* features with a value in a known metric column, the wide-pivoted combined
\* export included; in the end-to-end scenario the output has 2 features,
\* both counted as matched, with feminicidios_2022 equal to 1 and 2.
C8_Claimed_MatchCount ==
    (pc \in {"counted", "years", "done"} /\ joined_by = "code") =>
        /\ matches = Cardinality(FeaturesWithMetric(merged))
        /\ with_data = matches
        /\ IsScenario =>
              /\ Len(merged.rows) = 2
              /\ matches = 2
              /\ merged.rows[1][<<"feminicidios", 2022>>] = NumCell(1)
              /\ merged.rows[2][<<"feminicidios", 2022>>] = NumCell(2)

\* a column whose lower-cased name contains one of the candidates
HasColumnLike(cols, candidatos) ==
    \E i \in 1..Len(cols), a \in 1..Len(candidatos) : Contains(candidatos[a], LowerName(cols[i]))

CodeOnBothSides ==
    HasColumnLike(gdf.cols, CodeCandidates) /\ HasColumnLike(df_raw.cols, CodeCandidates)

NameOnBothSides == HasColumnLike(gdf.cols, NameCandidates) /\ HasCol(df_raw, NOME)

\* C9: the join by code runs exactly when a code column was found on both
\* sides; the join by name runs only when the join by code did not; the run
\* fails exactly when the join by code did not run and a name column is
\* missing on a side; every other run is reconciled.
C9_FallbackOrder ==
    pc \notin {"start", "pivoted", "detected"} =>
        /\ joined_by = "code" <=> CodeOnBothSides
        /\ joined_by = "name" <=> (~CodeOnBothSides /\ NameOnBothSides)
        /\ pc = "failed" <=> (~CodeOnBothSides /\ ~NameOnBothSides)
        /\ pc = "failed" <=> ~Joined
        /\ NameOnBothSides => pc # "failed"

C9_Witness ==
    /\ pc = "joined" /\ joined_by = "name"
    /\ HasCol(gdf, CD_MUN) /\ ~HasColumnLike(df_raw.cols, CodeCandidates)
    /\ Len(merged.rows) = 2

YearOfFile(f) == f.path[2]

OrderedFiles ==
    /\ files # <<>> => files[1].path = <<OUT_STEM>>
    /\ \A i \in 2..Len(files) : Len(files[i].path) = 2
    /\ \A i, j \in 2..Len(files) : i < j => YearOfFile(files[i]) < YearOfFile(files[j])
    /\ \A i \in 1..(Len(files) - 1) : files[i].complete
    /\ (files # <<>> /\ ~files[Len(files)].complete) => pc = "crashed"
    /\ (pc = "done" /\ CodeOnBothSides /\ HasCol(df_raw, YEAR_COLUMN)) =>
          {YearOfFile(files[i]) : i \in 2..Len(files)} = PresentYears

FilesStay ==
    \/ files' = files
    \/ Len(files') = Len(files) + 1 /\ SubSeq(files', 1, Len(files)) = files

\* C10: the combined file comes first, the per-year files follow in strictly
\* ascending year order, each complete before the next begins; a failed write
\* ends the run and leaves every file written before it in place; no year
\* with records is left out.
C10_ExportOrder == [][FilesStay /\ OrderedFiles']_vars

C10_Witness ==
    /\ pc = "crashed"
    /\ Len(files) = 2
    /\ files[1].path = <<OUT_STEM>> /\ files[1].complete
    /\ files[2].path = <<OUT_STEM, 2022>> /\ files[2].complete
    /\ ano_idx = 2 /\ Len(anos_disponiveis) = 2

====
